---- MODULE Spec2Model ----
(***************************************************************************)
(* A model of src/app.py: the "Start Scraping" button handler and the two  *)
(* stage functions it calls, scrape_website and extract_with_gemini.       *)
(*                                                                         *)
(* A Python str is a sequence of one-character strings.  None is the empty *)
(* tuple and a value v that is not None is the one-element tuple <<v>>.    *)
(***************************************************************************)
EXTENDS Integers, Sequences, FiniteSets, TLC

\* ------------------------------------------------------------------------
\* Python str operations used by the program
\* ------------------------------------------------------------------------

None == <<>>

Some(v) == <<v>>

Min(a, b) == IF a <= b THEN a ELSE b

\* s[:n] for n >= 0
Take(s, n) == SubSeq(s, 1, Min(n, Len(s)))

\* s[n:] for n >= 0
Drop(s, n) == SubSeq(s, Min(n, Len(s)) + 1, Len(s))

\* the characters str.strip() removes (str.isspace), among the ASCII ones
Whitespace == {" ", "\t", "\n", "\r", "\f"}

\* the line boundaries of str.splitlines(), among the ASCII ones; each is
\* whitespace too
LineBreaks == {"\n", "\r", "\f"}

UpperCase == <<"A", "B", "C", "D", "E", "F", "G", "H", "I", "J", "K", "L", "M",
               "N", "O", "P", "Q", "R", "S", "T", "U", "V", "W", "X", "Y", "Z">>

LowerCase == <<"a", "b", "c", "d", "e", "f", "g", "h", "i", "j", "k", "l", "m",
               "n", "o", "p", "q", "r", "s", "t", "u", "v", "w", "x", "y", "z">>

LowerChar(c) ==
    IF \E i \in 1..Len(UpperCase) : UpperCase[i] = c
    THEN LowerCase[CHOOSE i \in 1..Len(UpperCase) : UpperCase[i] = c]
    ELSE c

\* s.lower()
Lower(s) == [i \in 1..Len(s) |-> LowerChar(s[i])]

\* sub in s
Contains(s, sub) ==
    \E i \in 0..(Len(s) - Len(sub)) : SubSeq(s, i + 1, i + Len(sub)) = sub

RECURSIVE LStrip(_)
LStrip(s) ==
    IF s # <<>> /\ Head(s) \in Whitespace THEN LStrip(Tail(s)) ELSE s

RECURSIVE RStrip(_)
RStrip(s) ==
    IF s # <<>> /\ s[Len(s)] \in Whitespace
    THEN RStrip(SubSeq(s, 1, Len(s) - 1))
    ELSE s

\* s.strip()
Strip(s) == RStrip(LStrip(s))

\* s.splitlines(): a line ends at a line boundary ("\r\n" counts as one) and a
\* trailing boundary opens no further line.  cur is the line being read.
RECURSIVE SplitLinesFrom(_, _)
SplitLinesFrom(s, cur) ==
    IF s = <<>> THEN (IF cur = <<>> THEN <<>> ELSE <<cur>>)
    ELSE IF Head(s) = "\r" /\ Len(s) >= 2 /\ s[2] = "\n"
         THEN <<cur>> \o SplitLinesFrom(Drop(s, 2), <<>>)
    ELSE IF Head(s) \in LineBreaks
         THEN <<cur>> \o SplitLinesFrom(Tail(s), <<>>)
    ELSE SplitLinesFrom(Tail(s), Append(cur, Head(s)))

SplitLines(s) == SplitLinesFrom(s, <<>>)

\* s.split(sep) for a non-empty sep: the occurrences of sep are found left to
\* right without overlap; there is always a last (possibly empty) piece.
RECURSIVE SplitFrom(_, _, _)
SplitFrom(s, sep, cur) ==
    IF s = <<>> THEN <<cur>>
    ELSE IF Len(s) >= Len(sep) /\ SubSeq(s, 1, Len(sep)) = sep
         THEN <<cur>> \o SplitFrom(Drop(s, Len(sep)), sep, <<>>)
    ELSE SplitFrom(Tail(s), sep, Append(cur, Head(s)))

Split(s, sep) == SplitFrom(s, sep, <<>>)

\* sep.join(parts)
RECURSIVE Join(_, _)
Join(parts, sep) ==
    IF parts = <<>> THEN <<>>
    ELSE IF Len(parts) = 1 THEN parts[1]
    ELSE parts[1] \o sep \o Join(Tail(parts), sep)

RECURSIVE Flatten(_)
Flatten(ss) == IF ss = <<>> THEN <<>> ELSE Head(ss) \o Flatten(Tail(ss))

RECURSIVE NonEmptyOnly(_)
NonEmptyOnly(ss) ==
    IF ss = <<>> THEN <<>>
    ELSE IF Head(ss) = <<>> THEN NonEmptyOnly(Tail(ss))
    ELSE <<Head(ss)>> \o NonEmptyOnly(Tail(ss))

\* ------------------------------------------------------------------------
\* The string literals of src/app.py.  A character outside ASCII is written
\* as the one-character atom named by its code point.
\* ------------------------------------------------------------------------

FailedToFetch ==
    <<"F", "a", "i", "l", "e", "d", " ", "t", "o", " ", "f", "e", "t", "c",
      "h", " ", "w", "e", "b", "p", "a", "g", "e", ":", " ">>

ErrorParsing ==
    <<"E", "r", "r", "o", "r", " ", "p", "a", "r", "s", "i", "n", "g", " ",
      "w", "e", "b", "p", "a", "g", "e", ":", " ">>

GeminiApiError ==
    <<"G", "e", "m", "i", "n", "i", " ", "A", "P", "I", " ", "e", "r", "r",
      "o", "r", ":", " ">>

LinksFound ==
    <<"\n", "\n", "L", "i", "n", "k", "s", " ", "f", "o", "u", "n", "d",
      ":", "\n">>

CrossMark ==
    <<"U+274C", " ">>

PleaseProvide ==
    <<"P", "l", "e", "a", "s", "e", " ", "p", "r", "o", "v", "i", "d", "e",
      ":", " ">>

ExtractionPromptName ==
    <<"e", "x", "t", "r", "a", "c", "t", "i", "o", "n", " ", "p", "r", "o",
      "m", "p", "t">>

SourceUrlName ==
    <<"s", "o", "u", "r", "c", "e", " ", "U", "R", "L">>

ApiKeyName ==
    <<"A", "P", "I", " ", "k", "e", "y">>

KeyHint ==
    <<"U+1F4A1", " ", "P", "l", "e", "a", "s", "e", " ", "c", "h", "e",
      "c", "k", " ", "t", "h", "a", "t", " ", "y", "o", "u", "r", " ", "G",
      "e", "m", "i", "n", "i", " ", "A", "P", "I", " ", "k", "e", "y", " ",
      "i", "s", " ", "c", "o", "r", "r", "e", "c", "t", " ", "a", "n", "d",
      " ", "a", "c", "t", "i", "v", "e", ".">>

QuotaHint ==
    <<"U+1F4A1", " ", "Y", "o", "u", " ", "m", "a", "y", " ", "h", "a",
      "v", "e", " ", "e", "x", "c", "e", "e", "d", "e", "d", " ", "y", "o",
      "u", "r", " ", "A", "P", "I", " ", "q", "u", "o", "t", "a", ".", " ",
      "T", "r", "y", " ", "a", "g", "a", "i", "n", " ", "l", "a", "t", "e",
      "r", " ", "o", "r", " ", "c", "h", "e", "c", "k", " ", "y", "o", "u",
      "r", " ", "A", "P", "I", " ", "l", "i", "m", "i", "t", "s", ".">>

SuccessText ==
    <<"U+2705", " ", "S", "c", "r", "a", "p", "i", "n", "g", " ", "c", "o",
      "m", "p", "l", "e", "t", "e", "d", " ", "s", "u", "c", "c", "e", "s",
      "s", "f", "u", "l", "l", "y", "!">>

FetchingStatus ==
    <<"U+1F4E1", " ", "F", "e", "t", "c", "h", "i", "n", "g", " ", "w",
      "e", "b", "p", "a", "g", "e", ".", ".", ".">>

ProcessingStatus ==
    <<"U+1F916", " ", "P", "r", "o", "c", "e", "s", "s", "i", "n", "g",
      " ", "w", "i", "t", "h", " ", "G", "e", "m", "i", "n", "i", " ", "A",
      "I", ".", ".", ".">>

PromptHead ==
    <<"\n", "P", "l", "e", "a", "s", "e", " ", "e", "x", "t", "r", "a",
      "c", "t", " ", "t", "h", "e", " ", "f", "o", "l", "l", "o", "w", "i",
      "n", "g", " ", "i", "n", "f", "o", "r", "m", "a", "t", "i", "o", "n",
      " ", "f", "r", "o", "m", " ", "t", "h", "e", " ", "w", "e", "b", "p",
      "a", "g", "e", " ", "c", "o", "n", "t", "e", "n", "t", " ", "b", "e",
      "l", "o", "w", ":", "\n", "\n", "E", "X", "T", "R", "A", "C", "T",
      "I", "O", "N", " ", "R", "E", "Q", "U", "E", "S", "T", ":", " ">>

PromptMid ==
    <<"\n", "\n", "W", "E", "B", "P", "A", "G", "E", " ", "C", "O", "N",
      "T", "E", "N", "T", ":", "\n">>

PromptTail ==
    <<"\n", "\n", "P", "l", "e", "a", "s", "e", " ", "p", "r", "o", "v",
      "i", "d", "e", " ", "a", " ", "c", "l", "e", "a", "r", ",", " ", "s",
      "t", "r", "u", "c", "t", "u", "r", "e", "d", " ", "r", "e", "s", "p",
      "o", "n", "s", "e", " ", "w", "i", "t", "h", " ", "t", "h", "e", " ",
      "r", "e", "q", "u", "e", "s", "t", "e", "d", " ", "i", "n", "f", "o",
      "r", "m", "a", "t", "i", "o", "n", ".", " ", "\n", "I", "f", " ",
      "t", "h", "e", " ", "i", "n", "f", "o", "r", "m", "a", "t", "i", "o",
      "n", " ", "i", "s", " ", "n", "o", "t", " ", "a", "v", "a", "i", "l",
      "a", "b", "l", "e", ",", " ", "p", "l", "e", "a", "s", "e", " ", "s",
      "t", "a", "t", "e", " ", "t", "h", "a", "t", " ", "c", "l", "e", "a",
      "r", "l", "y", ".", "\n">>

Ignore ==
    <<"i", "g", "n", "o", "r", "e", "(", ")">>

Title ==
    <<"T", "i", "t", "l", "e">>

Prices ==
    <<"P", "r", "i", "c", "e", ":", " ", "$", "1", "0", " ", " ", "P", "r",
      "i", "c", "e", ":", " ", "$", "2", "0">>

FixtureClaimed ==
    <<"T", "i", "t", "l", "e", " ", "P", "r", "i", "c", "e", ":", " ", "$",
      "1", "0", " ", "P", "r", "i", "c", "e", ":", " ", "$", "2", "0">>

FixtureCleaned ==
    <<"T", "i", "t", "l", "e", "P", "r", "i", "c", "e", ":", " ", "$", "1",
      "0", " ", "P", "r", "i", "c", "e", ":", " ", "$", "2", "0">>

KeyWord ==
    <<"k", "e", "y">>

QuotaWord ==
    <<"q", "u", "o", "t", "a">>

ApiWord ==
    <<"a", "p", "i">>

CommaSpace ==
    <<",", " ">>

ColonSpace ==
    <<":", " ">>

TimedOut ==
    <<"t", "i", "m", "e", "d", " ", "o", "u", "t">>

NotFound ==
    <<"4", "0", "4", " ", "C", "l", "i", "e", "n", "t", " ", "E", "r", "r",
      "o", "r">>

Rejected ==
    <<"m", "a", "r", "k", "u", "p", " ", "r", "e", "j", "e", "c", "t", "e",
      "d">>

KeyInvalid ==
    <<"A", "P", "I", " ", "k", "e", "y", " ", "n", "o", "t", " ", "v", "a",
      "l", "i", "d">>

QuotaExceeded ==
    <<"Q", "u", "o", "t", "a", " ", "e", "x", "c", "e", "e", "d", "e", "d">>

Answer ==
    <<"o", "k">>

\* ------------------------------------------------------------------------
\* scrape_website: the parsed page, the text extraction and the clean-up
\* ------------------------------------------------------------------------

\* A page is the sequence of the parser's events: a start tag, an end tag or
\* a text node.  href is None for a start tag that has no href attribute.
StartTag(name) == [t |-> "start", name |-> name, href |-> None, data |-> <<>>]

Anchor(href) == [t |-> "start", name |-> "a", href |-> href, data |-> <<>>]

EndTag(name) == [t |-> "end", name |-> name, href |-> None, data |-> <<>>]

TextNode(data) == [t |-> "text", name |-> "", href |-> None, data |-> data]

\* soup(["script", "style", "nav", "header", "footer"])
Decomposed == {"script", "style", "nav", "header", "footer"}

\* The nesting depth inside a decomposed element after the event tok.
SkipAfter(tok, skip) ==
    IF tok.t = "start" /\ (skip > 0 \/ tok.name \in Decomposed) THEN skip + 1
    ELSE IF tok.t = "end" /\ skip > 0 THEN skip - 1
    ELSE skip

\* soup.get_text() after the decompose loop: the text nodes that are left,
\* concatenated in document order with no separator.
RECURSIVE GetTextFrom(_, _)
GetTextFrom(toks, skip) ==
    IF toks = <<>> THEN <<>>
    ELSE (IF Head(toks).t = "text" /\ skip = 0 THEN Head(toks).data ELSE <<>>)
         \o GetTextFrom(Tail(toks), SkipAfter(Head(toks), skip))

\* Variant: the text nodes joined with a space, script and style included.
GetTextSpaced(toks) == Join(NonEmptyOnly([i \in 1..Len(toks) |->
    IF toks[i].t = "text" THEN toks[i].data ELSE <<>>]), <<" ">>)

GetText(toks) == GetTextFrom(toks, 0)

\* link.get_text(): the text nodes up to the anchor's end tag.
RECURSIVE AnchorText(_, _)
AnchorText(toks, skip) ==
    IF toks = <<>> THEN <<>>
    ELSE IF Head(toks).t = "end" /\ Head(toks).name = "a" /\ skip = 0 THEN <<>>
    ELSE (IF Head(toks).t = "text" /\ skip = 0 THEN Head(toks).data ELSE <<>>)
         \o AnchorText(Tail(toks), SkipAfter(Head(toks), skip))

\* f"{link_text}: {link_url}"
FormatLink(link_text, link_url) == link_text \o ColonSpace \o link_url

\* The loop over soup.find_all('a', href=True): the anchors left after the
\* decompose loop that carry an href, in document order; one is kept when
\* its stripped text and its href are both non-empty.
RECURSIVE FindLinksFrom(_, _)
FindLinksFrom(toks, skip) ==
    IF toks = <<>> THEN <<>>
    ELSE LET tok == Head(toks)
             link_text == Strip(AnchorText(Tail(toks), 0))
             kept == /\ tok.t = "start" /\ tok.name = "a" /\ skip = 0
                     /\ tok.href # None
                     /\ link_text # <<>> /\ tok.href[1] # <<>>
         IN  (IF kept THEN <<FormatLink(link_text, tok.href[1])>> ELSE <<>>)
             \o FindLinksFrom(Tail(toks), SkipAfter(tok, skip))

FindLinks(toks) == FindLinksFrom(toks, 0)

\* chunks: every line stripped, split on two spaces, every phrase stripped
StripAll(ss) == [i \in 1..Len(ss) |-> Strip(ss[i])]

Chunks(text) ==
    LET lines == StripAll(SplitLines(text))
    IN  StripAll(Flatten([i \in 1..Len(lines) |-> Split(lines[i], <<" ", " ">>)]))

\* Variant: the lines joined without the split on two spaces.
CleanTextNoSplit(text) == Join(NonEmptyOnly(StripAll(SplitLines(text))), <<" ">>)

\* ' '.join(chunk for chunk in chunks if chunk)
CleanText(text) == Join(NonEmptyOnly(Chunks(text)), <<" ">>)

\* The body of the try block from the parse on: the returned triple.
ScrapeOk(content, include_links) ==
    [caught       |-> TRUE,
     text_content |-> Some(CleanText(GetText(content))),
     links        |-> IF include_links THEN FindLinks(content) ELSE <<>>,
     error        |-> None]

\* The exception classes the model raises, and those that are a
\* requests.exceptions.RequestException.
RequestExceptions == {"ConnectionError", "Timeout", "HTTPError"}

Exceptions == RequestExceptions \cup
    {"UnicodeError", "ParserRejectedMarkup", "TypeError", "ValueError",
     "InvalidArgument", "ResourceExhausted"}

\* Variant: the first except clause alone.
ScrapeExceptFetchOnly(cls, msg) ==
    IF cls \in RequestExceptions
    THEN [caught |-> TRUE, text_content |-> None, links |-> <<>>,
          error |-> Some(FailedToFetch \o msg)]
    ELSE [caught |-> FALSE, text_content |-> None, links |-> <<>>,
          error |-> None]

\* The two except clauses of scrape_website.
ScrapeExcept(cls, msg) ==
    IF cls \in RequestExceptions
    THEN [caught |-> TRUE, text_content |-> None, links |-> <<>>,
          error |-> Some(FailedToFetch \o msg)]
    ELSE IF cls \in Exceptions
    THEN [caught |-> TRUE, text_content |-> None, links |-> <<>>,
          error |-> Some(ErrorParsing \o msg)]
    ELSE [caught |-> FALSE, text_content |-> None, links |-> <<>>,
          error |-> None]

\* response.raise_for_status(): an HTTPError for a 4xx or 5xx status
RaisesForStatus(status) == status >= 400 /\ status < 600

\* ------------------------------------------------------------------------
\* extract_with_gemini: the prompt and the result
\* ------------------------------------------------------------------------

\* links[:20]
LinkCap == 20

\* Variant: the cut made after the links are appended.
BuildContentCutLast(text, links, max_chars, with_links) ==
    Take(text \o (IF links # <<>> /\ with_links
                  THEN LinksFound \o Join(Take(links, LinkCap), <<"\n">>)
                  ELSE <<>>), max_chars)

\* Variant: the cut one character short.
BuildContentShort(text, links, max_chars, with_links) ==
    Take(text, max_chars - 1)
    \o (IF links # <<>> /\ with_links
        THEN LinksFound \o Join(Take(links, LinkCap), <<"\n">>)
        ELSE <<>>)

\* content_to_analyze: text_content[:max_chars], and the first links after
\* it when there are links and include_links is set
BuildContent(text, links, max_chars, with_links) ==
    Take(text, max_chars)
    \o (IF links # <<>> /\ with_links
        THEN LinksFound \o Join(Take(links, LinkCap), <<"\n">>)
        ELSE <<>>)

\* extraction_prompt, the f-string
ExtractionPrompt(user_prompt, content) ==
    PromptHead \o user_prompt \o PromptMid \o content \o PromptTail

\* return response.text, None
GeminiOk(text) == [caught |-> TRUE, result |-> Some(text), error |-> None]

\* Variant: the message returned with no words before it.
GeminiExceptBare(cls, msg) ==
    [caught |-> TRUE, result |-> None, error |-> Some(msg)]

\* The except clause of extract_with_gemini.
GeminiExcept(cls, msg) ==
    IF cls \in Exceptions
    THEN [caught |-> TRUE, result |-> None,
          error |-> Some(GeminiApiError \o msg)]
    ELSE [caught |-> FALSE, result |-> None, error |-> None]

\* ------------------------------------------------------------------------
\* The button handler's decisions
\* ------------------------------------------------------------------------

\* bool(x) of a value that is None or a str
Truthy(opt) == opt # None /\ opt[1] # <<>>

\* all([prompt, source_url, api_key])
AllProvided(p, u, k) == p # <<>> /\ u # <<>> /\ k # <<>>

\* Variant: the first empty field alone.
MissingFirstOnly(p, u, k) ==
    IF p = <<>> THEN <<ExtractionPromptName>>
    ELSE IF u = <<>> THEN <<SourceUrlName>>
    ELSE IF k = <<>> THEN <<ApiKeyName>>
    ELSE <<>>

\* the list missing
Missing(p, u, k) ==
    (IF p = <<>> THEN <<ExtractionPromptName>> ELSE <<>>)
    \o (IF u = <<>> THEN <<SourceUrlName>> ELSE <<>>)
    \o (IF k = <<>> THEN <<ApiKeyName>> ELSE <<>>)

\* f"... Please provide: {', '.join(missing)}"
ValidationMessage(p, u, k) ==
    CrossMark \o PleaseProvide \o Join(Missing(p, u, k), CommaSpace)

\* Variant: the error is not looked at.
ScrapeFailedNever(scrape_err) == FALSE

\* if scrape_error:
ScrapeFailed(scrape_err) == Truthy(scrape_err)

\* Variant: the words looked for without lower().
HintsCaseSensitive(err) ==
    IF Contains(err, ApiWord) /\ Contains(err, KeyWord) THEN <<KeyHint>>
    ELSE IF Contains(err, QuotaWord) THEN <<QuotaHint>>
    ELSE <<>>

\* The st.info shown after the error: at most one hint.
Hints(err) ==
    IF Contains(Lower(err), ApiWord) /\ Contains(Lower(err), KeyWord)
    THEN <<KeyHint>>
    ELSE IF Contains(Lower(err), QuotaWord) THEN <<QuotaHint>>
    ELSE <<>>

\* An element the handler puts on the page.
Shown(kind, text) == [kind |-> kind, text |-> text]

\* ------------------------------------------------------------------------
\* State
\* ------------------------------------------------------------------------

VARIABLES
    prompt, source_url, api_key,    \* the text inputs
    max_chars, include_links,       \* the advanced options
    pc,                             \* where the script is
    status_text, progress_bar,      \* the progress indicators (None: empty)
    response,                       \* the response of requests.get, or None
    text_content, links, scrape_error,      \* what scrape_website returned
    content_to_analyze,             \* the local of extract_with_gemini
    result, gemini_error,           \* what extract_with_gemini returned
    shown,                          \* the elements the handler put on the page
    getCalls,                       \* requests.get calls of this run
    geminiCalls,                    \* extract_with_gemini calls of this run
    genRequests                     \* generate_content calls of this run

inputs == <<prompt, source_url, api_key, max_chars, include_links>>

scraped == <<text_content, links, scrape_error>>

generated == <<result, gemini_error>>

indicators == <<status_text, progress_bar>>

vars == <<inputs, pc, indicators, response, scraped, content_to_analyze,
          generated, shown, getCalls, geminiCalls, genRequests>>

\* The script has run to its end and the page waits for the button: after the
\* first rendering, after a validation message, after a run, and after an
\* exception no except clause caught.
Resting == {"Rendered", "Invalid", "FetchFailed", "GenerationFailed", "Done",
            "Unhandled"}

\* ------------------------------------------------------------------------
\* Bounds and inputs
\* ------------------------------------------------------------------------

\* The slider's range 1000..10000, scaled down to MaxCharsLo..MaxCharsHi.
MaxCharsLo == 1

MaxCharsHi == 4

Budgets == MaxCharsLo..MaxCharsHi

\* A text input is empty or not.
FieldValues == {<<>>, <<"x">>}

Form(p, u, k, m, l) ==
    [prompt |-> p, source_url |-> u, api_key |-> k, max_chars |-> m,
     include_links |-> l]

AllForms ==
    {Form(p, u, k, m, l) : p \in FieldValues, u \in FieldValues,
                           k \in FieldValues, m \in Budgets, l \in BOOLEAN}

\* What requests.get does: it raises cls(msg), or it returns a response with
\* a status (msg is the HTTPError's text) and a content; parse_exc is not
\* None when the parser rejects the content.
Raised(cls, msg) ==
    [kind |-> "raise", cls |-> cls, msg |-> msg, status |-> 0,
     content |-> <<>>, parse_exc |-> None]

Response(status, msg, content, parse_exc) ==
    [kind |-> "response", cls |-> "", msg |-> msg, status |-> status,
     content |-> content, parse_exc |-> parse_exc]

Page(content) == Response(200, <<>>, content, None)

\* <html><body><script>ignore()</script><h1>Title</h1>
\* <p>Price: $10  Price: $20</p></body></html>
Fixture ==
    <<StartTag("html"), StartTag("body"),
      StartTag("script"), TextNode(Ignore), EndTag("script"),
      StartTag("h1"), TextNode(Title), EndTag("h1"),
      StartTag("p"), TextNode(Prices), EndTag("p"),
      EndTag("body"), EndTag("html")>>

\* A page with anchors: one in a nav, one kept, one with no href, one with an
\* empty href, one with blank text.
LinkPage ==
    <<StartTag("body"),
      StartTag("nav"), Anchor(Some(<<"/", "n">>)), TextNode(<<"N">>),
      EndTag("a"), EndTag("nav"),
      StartTag("p"), TextNode(<<" ", "a", " ", " ", "b", "\n", "\n">>),
      EndTag("p"),
      Anchor(Some(<<"/", "k">>)), TextNode(<<" ", "K", " ">>), EndTag("a"),
      Anchor(None), TextNode(<<"M">>), EndTag("a"),
      Anchor(Some(<<>>)), TextNode(<<"E">>), EndTag("a"),
      Anchor(Some(<<"/", "w">>)), TextNode(<<" ">>), EndTag("a"),
      EndTag("body")>>

SampleResponses ==
    {Raised("ConnectionError", TimedOut), Raised("Timeout", <<>>),
     Raised("UnicodeError", <<>>),
     Response(404, NotFound, <<>>, None), Response(304, <<>>, <<>>, None),
     Response(200, <<>>, <<>>, Some(Rejected)),
     Response(200, <<>>, <<>>, Some(<<>>)),
     Page(Fixture), Page(LinkPage)}

\* What lines 91-92 do: they raise, or they return.
ConfigOutcomes == {[kind |-> "ok", cls |-> "", msg |-> <<>>],
                   [kind |-> "raise", cls |-> "ValueError", msg |-> <<>>]}

\* What generate_content and response.text do: one of them raises cls(msg),
\* or the text is returned.
GenRaised(cls, msg) == [kind |-> "raise", cls |-> cls, msg |-> msg, text |-> <<>>]

GenText(text) == [kind |-> "text", cls |-> "", msg |-> <<>>, text |-> text]

SampleOutcomes ==
    {GenText(Answer), GenText(<<>>), GenRaised("InvalidArgument", KeyInvalid),
     GenRaised("ResourceExhausted", QuotaExceeded), GenRaised("ValueError", <<>>)}

\* ------------------------------------------------------------------------
\* The script
\* ------------------------------------------------------------------------

\* The values every run starts with: nothing of an earlier run is kept.
Fresh ==
    /\ status_text = None /\ progress_bar = None
    /\ response = None
    /\ text_content = None /\ links = <<>> /\ scrape_error = None
    /\ content_to_analyze = None
    /\ result = None /\ gemini_error = None
    /\ shown = <<>>
    /\ getCalls = 0 /\ geminiCalls = 0 /\ genRequests = 0

\* The first rendering: the widgets hold their defaults (api_key the value of
\* GEMINI_API_KEY, or empty) and the button was not pressed.
Init ==
    /\ prompt = <<>> /\ source_url = <<>>
    /\ api_key \in FieldValues
    /\ max_chars \in Budgets
    /\ include_links = FALSE
    /\ pc = "Rendered"
    /\ Fresh

\* The user fills the form in and presses the button: the script runs again
\* from its first line with the widgets' values and nothing else.
Button(Forms) ==
    /\ pc \in Resting
    /\ \E f \in Forms :
        /\ prompt' = f.prompt /\ source_url' = f.source_url
        /\ api_key' = f.api_key
        /\ max_chars' = f.max_chars /\ include_links' = f.include_links
    /\ pc' = "Idle"
    /\ status_text' = None /\ progress_bar' = None
    /\ response' = None
    /\ text_content' = None /\ links' = <<>> /\ scrape_error' = None
    /\ content_to_analyze' = None
    /\ result' = None /\ gemini_error' = None
    /\ shown' = <<>>
    /\ getCalls' = 0 /\ geminiCalls' = 0 /\ genRequests' = 0

\* Lines 129-143: the validation, and the first progress step.
Validate ==
    /\ pc = "Idle"
    /\ IF ~AllProvided(prompt, source_url, api_key)
       THEN /\ shown' = <<Shown("error",
                                ValidationMessage(prompt, source_url, api_key))>>
            /\ pc' = "Invalid"
            /\ UNCHANGED indicators
       ELSE /\ status_text' = Some(FetchingStatus)
            /\ progress_bar' = Some(25)
            /\ pc' = "Fetching"
            /\ UNCHANGED shown
    /\ UNCHANGED <<inputs, response, scraped, content_to_analyze, generated,
                   getCalls, geminiCalls, genRequests>>

\* Variant: a failed scrape is tried again.
ScrapeReturnRetry(res) ==
    IF ~res.caught
    THEN /\ pc' = "Unhandled"
         /\ UNCHANGED <<scraped, shown, indicators, geminiCalls>>
    ELSE /\ text_content' = res.text_content
         /\ links' = res.links
         /\ scrape_error' = res.error
         /\ IF ScrapeFailed(res.error)
            THEN /\ pc' = "Fetching"
                 /\ UNCHANGED <<shown, indicators, geminiCalls>>
            ELSE /\ status_text' = Some(ProcessingStatus)
                 /\ progress_bar' = Some(75)
                 /\ geminiCalls' = geminiCalls + 1
                 /\ pc' = "Prompting"
                 /\ UNCHANGED shown

\* Lines 145-156 and 193-196, once scrape_website has returned res (or has
\* let an exception through): the error is shown and the run ends, or
\* extract_with_gemini is called.
ScrapeReturn(res) ==
    IF ~res.caught
    THEN /\ pc' = "Unhandled"
         /\ UNCHANGED <<scraped, shown, indicators, geminiCalls>>
    ELSE /\ text_content' = res.text_content
         /\ links' = res.links
         /\ scrape_error' = res.error
         /\ IF ScrapeFailed(res.error)
            THEN /\ shown' = <<Shown("error", CrossMark \o res.error[1])>>
                 /\ status_text' = None /\ progress_bar' = None
                 /\ pc' = "FetchFailed"
                 /\ UNCHANGED geminiCalls
            ELSE /\ status_text' = Some(ProcessingStatus)
                 /\ progress_bar' = Some(75)
                 /\ geminiCalls' = geminiCalls + 1
                 /\ pc' = "Prompting"
                 /\ UNCHANGED shown

\* Lines 54-55: the one GET and raise_for_status.
Fetch(Responses) ==
    /\ pc = "Fetching"
    /\ getCalls' = getCalls + 1
    /\ \E r \in Responses :
        IF r.kind = "raise"
        THEN ScrapeReturn(ScrapeExcept(r.cls, r.msg)) /\ UNCHANGED response
        ELSE IF RaisesForStatus(r.status)
        THEN ScrapeReturn(ScrapeExcept("HTTPError", r.msg)) /\ UNCHANGED response
        ELSE /\ response' = Some(r)
             /\ pc' = "Extracting"
             /\ UNCHANGED <<scraped, shown, indicators, geminiCalls>>
    /\ UNCHANGED <<inputs, content_to_analyze, generated, genRequests>>

\* Lines 57-80: the parse, the text and the links.
Extract ==
    /\ pc = "Extracting"
    /\ LET r == response[1]
       IN  ScrapeReturn(IF r.parse_exc # None
                        THEN ScrapeExcept("ParserRejectedMarkup", r.parse_exc[1])
                        ELSE ScrapeOk(r.content, include_links))
    /\ UNCHANGED <<inputs, response, content_to_analyze, generated, getCalls,
                   genRequests>>

\* Lines 158-196, once extract_with_gemini has returned res (or has let an
\* exception through): the error and its hint, or the result.
GeminiReturn(res) ==
    IF ~res.caught
    THEN /\ pc' = "Unhandled"
         /\ UNCHANGED <<generated, shown, indicators>>
    ELSE /\ result' = res.result
         /\ gemini_error' = res.error
         /\ status_text' = None /\ progress_bar' = None
         /\ IF Truthy(res.error)
            THEN LET hints == Hints(res.error[1])
                 IN  /\ shown' = <<Shown("error", CrossMark \o res.error[1])>>
                            \o [i \in 1..Len(hints) |-> Shown("info", hints[i])]
                     /\ pc' = "GenerationFailed"
            ELSE /\ shown' = <<Shown("success", SuccessText),
                               Shown("write", res.result),
                               Shown("download", res.result)>>
                 /\ pc' = "Done"

\* Lines 91-112: the client is configured and the prompt is built.
Prepare(Outcomes) ==
    /\ pc = "Prompting"
    /\ \E c \in Outcomes :
        IF c.kind = "raise"
        THEN GeminiReturn(GeminiExcept(c.cls, c.msg))
             /\ UNCHANGED content_to_analyze
        ELSE IF text_content = None
        THEN GeminiReturn(GeminiExcept("TypeError", <<>>))
             /\ UNCHANGED content_to_analyze
        ELSE /\ content_to_analyze' =
                    Some(BuildContent(text_content[1], links, max_chars,
                                      include_links))
             /\ pc' = "Generating"
             /\ UNCHANGED <<generated, shown, indicators>>
    /\ UNCHANGED <<inputs, response, scraped, getCalls, geminiCalls,
                   genRequests>>

\* Lines 115-123: the one request, and the text of its response.
Generate(Outcomes) ==
    /\ pc = "Generating"
    /\ genRequests' = genRequests + 1
    /\ \E o \in Outcomes :
        GeminiReturn(IF o.kind = "raise" THEN GeminiExcept(o.cls, o.msg)
                     ELSE GeminiOk(o.text))
    /\ UNCHANGED <<inputs, response, scraped, content_to_analyze, getCalls,
                   geminiCalls>>

Next ==
    \/ Button(AllForms)
    \/ Validate
    \/ Fetch(SampleResponses)
    \/ Extract
    \/ Prepare(ConfigOutcomes)
    \/ Generate(SampleOutcomes)

Spec == Init /\ [][Next]_vars

\* ------------------------------------------------------------------------
\* The same script, with every page text up to a length
\* ------------------------------------------------------------------------

MaxTextLen == 5

CleanAlphabet == {"a", " ", "\n", "\t", "\r"}

Texts == UNION {[1..n -> CleanAlphabet] : n \in 0..MaxTextLen}

TextResponses == {Page(<<TextNode(t)>>) : t \in Texts}

FilledForm(m, l) == Form(<<"x">>, <<"x">>, <<"x">>, m, l)

OneForm == {FilledForm(MaxCharsHi, FALSE)}

ConfigOk == {c \in ConfigOutcomes : c.kind = "ok"}

NextClean ==
    \/ Button(OneForm)
    \/ Validate
    \/ Fetch(TextResponses)
    \/ Extract
    \/ Prepare(ConfigOk)
    \/ Generate({GenText(Answer)})

SpecClean == Init /\ [][NextClean]_vars

\* ------------------------------------------------------------------------
\* The same script, with pages of every text length and number of anchors,
\* every budget and both values of include_links
\* ------------------------------------------------------------------------

MaxBody == 3

MaxAnchors == 22

\* A paragraph of t letters followed by n anchors, each with a text and an href.
PromptPage(t, n) ==
    <<StartTag("p"), TextNode(SubSeq(LowerCase, 1, t)), EndTag("p")>>
    \o Flatten([i \in 1..n |->
                  <<Anchor(Some(<<"/", LowerCase[i]>>)),
                    TextNode(<<UpperCase[i]>>), EndTag("a")>>])

PromptResponses == {Page(PromptPage(t, n)) : t \in 0..MaxBody, n \in 0..MaxAnchors}

PromptForms == {FilledForm(m, l) : m \in Budgets, l \in BOOLEAN}

NextPrompt ==
    \/ Button(PromptForms)
    \/ Validate
    \/ Fetch(PromptResponses)
    \/ Extract
    \/ Prepare(ConfigOk)
    \/ Generate({GenText(Answer)})

SpecPrompt == Init /\ [][NextPrompt]_vars

\* ------------------------------------------------------------------------
\* The same script, with every error message made of up to MaxWords words
\* ------------------------------------------------------------------------

MaxWords == 3

HintWords ==
    {<<"k", "e", "y">>, <<"K", "e">>, <<"Y">>,
     <<"q", "u", "o", "t", "a">>, <<"Q", "u", "o", "T", "A">>,
     <<"q", "u", "o">>, <<"t", "a">>, <<" ">>, <<"a", "p", "i">>}

Messages == UNION {{Flatten(ws) : ws \in [1..n -> HintWords]} : n \in 0..MaxWords}

HintOutcomes == {GenRaised("InvalidArgument", m) : m \in Messages}

NextHint ==
    \/ Button(OneForm)
    \/ Validate
    \/ Fetch({Page(Fixture)})
    \/ Extract
    \/ Prepare(ConfigOk)
    \/ Generate(HintOutcomes)

SpecHint == Init /\ [][NextHint]_vars

\* ------------------------------------------------------------------------
\* Properties
\* ------------------------------------------------------------------------

AnyMissing == prompt = <<>> \/ source_url = <<>> \/ api_key = <<>>

NoNetworkCall == getCalls = 0 /\ geminiCalls = 0 /\ genRequests = 0

\* C1: with an empty extraction prompt, source URL or API key, a run makes no
\* network call (no GET, no extract_with_gemini call, no generation
\* request) and ends with exactly one error message on the page, which names
\* each empty field and no field that was filled in.
C1_MissingFieldsReported ==
    AnyMissing =>
        /\ pc \in {"Rendered", "Idle", "Invalid"}
        /\ NoNetworkCall
        /\ pc = "Invalid" =>
            /\ Len(shown) = 1
            /\ shown[1].kind = "error"
            /\ Contains(shown[1].text, ExtractionPromptName) <=> prompt = <<>>
            /\ Contains(shown[1].text, SourceUrlName) <=> source_url = <<>>
            /\ Contains(shown[1].text, ApiKeyName) <=> api_key = <<>>

\* The URL and the key are empty, the prompt is not, and the message is shown.
C1_Witness ==
    /\ pc = "Invalid"
    /\ prompt # <<>> /\ source_url = <<>> /\ api_key = <<>>
    /\ Len(shown) = 1
    /\ Contains(shown[1].text, SourceUrlName)
    /\ Contains(shown[1].text, ApiKeyName)

\* C2: when scrape_website returns an error the run ends without a call of
\* extract_with_gemini, and extract_with_gemini is called only after the one
\* GET of the run, with a scrape result that holds a text and no error.
C2_NoExtractionAfterScrapeError ==
    /\ pc = "FetchFailed" => scrape_error # None /\ geminiCalls = 0 /\ genRequests = 0
    /\ scrape_error # None => geminiCalls = 0 /\ genRequests = 0
    /\ geminiCalls > 0 =>
        /\ getCalls = 1
        /\ scrape_error = None
        /\ text_content # None

\* scrape_website has returned an error after its GET.
C2_Witness ==
    /\ pc = "FetchFailed"
    /\ getCalls = 1
    /\ scrape_error # None
    /\ geminiCalls = 0

\* One step of a run, as the specification's state machine has it.
ClaimedStep(from, to) ==
    \/ from \in Resting /\ to = "Idle"
    \/ from = "Idle" /\ to = "Fetching" /\ ~AnyMissing
    \/ from = "Idle" /\ to = "Invalid" /\ AnyMissing
    \/ from = "Fetching" /\ to \in {"FetchFailed", "Extracting"}
    \/ from = "Extracting" /\ to = "Prompting"
    \/ from = "Prompting" /\ to = "Generating"
    \/ from = "Generating" /\ to \in {"GenerationFailed", "Done"}

\* One step of a run: the two stage functions can also fail after their first
\* state, in the parse and before the request.
RunStep(from, to) ==
    \/ ClaimedStep(from, to)
    \/ from = "Extracting" /\ to = "FetchFailed"
    \/ from = "Prompting" /\ to = "GenerationFailed"

\* C3, as claimed: every step of a run is one of Idle -> Fetching ->
\* (FetchFailed | Extracting) -> Prompting -> Generating ->
\* (GenerationFailed | Done), the button starts a run only from a state in
\* which the script has ended, and the run it starts keeps nothing.
C3_ClaimedStateSequence ==
    [][ClaimedStep(pc, pc') /\ (pc' = "Idle" => Fresh')]_vars

\* C3, amended: every step of a run is one of Idle -> Fetching ->
\* (FetchFailed | Extracting) -> (FetchFailed | Prompting) ->
\* (GenerationFailed | Generating) -> (GenerationFailed | Done); a run that
\* passed the validation ends in FetchFailed, GenerationFailed or Done only,
\* the button starts a run only from a state in which the script has ended,
\* and the run it starts keeps nothing of the run before.
C3_RunStateSequence ==
    [][RunStep(pc, pc') /\ (pc' = "Idle" => Fresh')]_vars

\* The parse failed: the run is in FetchFailed after Extracting.
C3_Witness ==
    /\ pc = "FetchFailed"
    /\ response # None
    /\ getCalls = 1

ScrapeReturned ==
    pc \in {"FetchFailed", "Prompting", "Generating", "GenerationFailed", "Done"}

GeminiReturned == pc \in {"GenerationFailed", "Done"}

StartsWith(s, prefix) == Len(s) >= Len(prefix) /\ SubSeq(s, 1, Len(prefix)) = prefix

\* C4: no exception leaves a stage; scrape_website returns (None, [], error)
\* with a non-empty descriptive error, or a text with the error None;
\* extract_with_gemini returns (None, error) with a non-empty descriptive
\* error, or a text with the error None: exactly one of the payload and the
\* error is not None.
C4_StageErrorsAreReturned ==
    /\ pc # "Unhandled"
    /\ ScrapeReturned =>
        /\ (text_content = None) # (scrape_error = None)
        /\ scrape_error # None =>
            /\ links = <<>>
            /\ scrape_error[1] # <<>>
            /\ StartsWith(scrape_error[1], FailedToFetch)
                 \/ StartsWith(scrape_error[1], ErrorParsing)
    /\ GeminiReturned =>
        /\ (result = None) # (gemini_error = None)
        /\ gemini_error # None =>
            /\ gemini_error[1] # <<>>
            /\ StartsWith(gemini_error[1], GeminiApiError)

\* An exception whose message is empty was caught in the generation stage.
C4_Witness ==
    /\ pc = "GenerationFailed"
    /\ result = None
    /\ gemini_error = Some(GeminiApiError)

\* The texts of the hints on the page.
HintsShown == {shown[i].text : i \in {j \in 1..Len(shown) : shown[j].kind = "info"}}

\* The raw message of the failure, in lower case: gemini_error without the
\* words extract_with_gemini puts before it.
RawLower == Lower(Drop(gemini_error[1], Len(GeminiApiError)))

ErrorShownFirst ==
    /\ Len(shown) >= 1
    /\ shown[1] = Shown("error", CrossMark \o gemini_error[1])
    /\ Len(shown) = 1 + Cardinality(HintsShown)

\* C5, as claimed: after a failed generation the raw error is shown, with the
\* key hint when the raw message contains "key" in any letter case, with the
\* quota hint when it contains "quota", and alone when it contains neither.
C5_ClaimedHints ==
    pc = "GenerationFailed" /\ gemini_error # None =>
        /\ ErrorShownFirst
        /\ Contains(RawLower, KeyWord) => KeyHint \in HintsShown
        /\ Contains(RawLower, QuotaWord) => QuotaHint \in HintsShown
        /\ ~Contains(RawLower, KeyWord) /\ ~Contains(RawLower, QuotaWord)
             => HintsShown = {}

\* C5, amended: after a failed generation the raw error is shown, with the
\* key hint exactly when the raw message contains "key" in any letter case,
\* with the quota hint exactly when it contains "quota" in any letter case
\* and does not contain "key", and alone when it contains neither: at most
\* one hint is shown.
C5_HintSelection ==
    pc = "GenerationFailed" /\ gemini_error # None =>
        /\ ErrorShownFirst
        /\ KeyHint \in HintsShown <=> Contains(RawLower, KeyWord)
        /\ QuotaHint \in HintsShown <=>
             Contains(RawLower, QuotaWord) /\ ~Contains(RawLower, KeyWord)
        /\ HintsShown \subseteq {KeyHint, QuotaHint}
        /\ Cardinality(HintsShown) <= 1

\* The message "QuoTAKeY" names both: the key hint alone is shown.
C5_Witness ==
    /\ pc = "GenerationFailed"
    /\ gemini_error = Some(GeminiApiError \o <<"Q", "u", "o", "T", "A", "K", "e", "Y">>)
    /\ HintsShown = {KeyHint}

\* The part of content_to_analyze that extraction_prompt holds between
\* "WEBPAGE CONTENT:\n" and position n after it, and what follows that part.
PromptOffset == Len(PromptHead \o prompt \o PromptMid)

SentPrompt == ExtractionPrompt(prompt, content_to_analyze[1])

LinksAppended == include_links /\ links # <<>>

\* C6: the page text in the prompt is the first min(max_chars, len(text))
\* characters of the cleaned text, no more and no fewer: it starts right
\* after "WEBPAGE CONTENT:\n" and is followed at once by "\n\nLinks found:\n"
\* when links are appended and by the end of the template when not.
C6_TextSegmentIsPrefix ==
    content_to_analyze # None =>
        LET text == text_content[1]
            n == IF max_chars <= Len(text) THEN max_chars ELSE Len(text)
            after == IF LinksAppended THEN LinksFound ELSE PromptTail
        IN  /\ \A i \in 1..n : SentPrompt[PromptOffset + i] = text[i]
            /\ SubSeq(SentPrompt, PromptOffset + n + 1,
                      PromptOffset + n + Len(after)) = after

\* A text longer than the budget was cut, and links follow it.
C6_Witness ==
    /\ content_to_analyze # None
    /\ Len(text_content[1]) > max_chars
    /\ LinksAppended
    /\ pc = "Generating"

\* C7: the budget cuts the page text only: with include_links set and links
\* found, content_to_analyze is the cut text, then "\n\nLinks found:\n", then
\* the first min(20, len(links)) links in their order, one per line, whatever
\* the budget; with include_links off or no link found, it is the cut text.
C7_LinksAfterTruncation ==
    content_to_analyze # None =>
        LET text == text_content[1]
            n == IF max_chars <= Len(text) THEN max_chars ELSE Len(text)
            rest == Drop(content_to_analyze[1], n)
            kept == IF Len(links) <= 20 THEN Len(links) ELSE 20
        IN  /\ Take(content_to_analyze[1], n) = Take(text, n)
            /\ IF LinksAppended
               THEN /\ Take(rest, Len(LinksFound)) = LinksFound
                    /\ Drop(rest, Len(LinksFound))
                         = Join(SubSeq(links, 1, kept), <<"\n">>)
               ELSE rest = <<>>

\* More than 20 links were found and the text is longer than the budget.
C7_Witness ==
    /\ content_to_analyze # None
    /\ include_links
    /\ Len(links) > 20
    /\ Len(text_content[1]) > max_chars

FixtureExtracted ==
    /\ pc \in {"Prompting", "Generating", "GenerationFailed", "Done"}
    /\ response # None
    /\ response[1].content = Fixture
    /\ ~include_links

\* C8, as claimed: for the fixture page with include_links off the extraction
\* returns the text "Title Price: $10 Price: $20" and no link.
C8_ClaimedFixtureText ==
    FixtureExtracted => text_content = Some(FixtureClaimed) /\ links = <<>>

\* C8, amended: for the fixture page with include_links off the extraction
\* returns the text "TitlePrice: $10 Price: $20" (the text nodes of h1 and p
\* are concatenated with nothing between them) and no link.
C8_FixtureText ==
    FixtureExtracted =>
        /\ text_content = Some(FixtureCleaned)
        /\ links = <<>>
        /\ scrape_error = None

\* The fixture page was fetched and extracted.
C8_Witness == FixtureExtracted /\ text_content # None /\ pc = "Prompting"

\* C9: the cleaned text has no two consecutive spaces, no space at its start
\* or its end, and no line that is empty or holds only whitespace.
C9_CleanedTextIsNormalised ==
    text_content # None =>
        LET t == text_content[1]
            lines == SplitLines(t)
        IN  /\ \A i \in 1..(Len(t) - 1) : ~(t[i] = " " /\ t[i + 1] = " ")
            /\ t # <<>> => t[1] # " " /\ t[Len(t)] # " "
            /\ \A i \in 1..Len(t) : t[i] \notin LineBreaks
            /\ \A j \in 1..Len(lines) : Strip(lines[j]) # <<>>

\* A blank line, then two words two spaces apart: one space is left.
C9_Witness ==
    /\ response # None
    /\ response[1].content = <<TextNode(<<"\n", "a", " ", " ", "a">>)>>
    /\ text_content = Some(<<"a", " ", "a">>)

\* C10: a run issues at most one GET and at most one generation request,
\* and a failed run does nothing more: the only step after FetchFailed or
\* GenerationFailed is the button, which starts a run that has made no call.
C10_NoRetry ==
    /\ [](getCalls <= 1 /\ genRequests <= 1)
    /\ [][(pc = "FetchFailed" \/ pc = "GenerationFailed")
            => (pc' = "Idle" /\ getCalls' = 0 /\ genRequests' = 0)]_vars

\* Both calls were made once and the generation failed.
C10_Witness ==
    /\ pc = "GenerationFailed"
    /\ getCalls = 1
    /\ genRequests = 1

====
